---- MODULE Spec2Model ----
(***************************************************************************)
(* Model of spatialmedia/mpeg/sv3d.py: the sv3d (spherical video) box      *)
(* codec.  load parses an sv3d box from a byte stream, sv3dBox.create      *)
(* builds one from metadata, sv3dBox.save serialises one.                  *)
(*                                                                         *)
(* Representation of numbers.  TLC integers are 32-bit signed, while the   *)
(* wire fields are 32-bit unsigned, so a Python int that goes through      *)
(* struct.pack(">I")/struct.unpack(">I") is a Word <<h, l>> standing for   *)
(* h * 65536 + l with 0 <= l < 65536 (h < 0 for a negative int).  A float  *)
(* angle is <<h, l, s>> standing for (h * 65536 + l + s / Sub) / 65536     *)
(* degrees, 0 <= s < Sub: h and l are the floor of angle * 65536 and s is  *)
(* what int() truncates.  Box sizes and stream offsets are plain integers. *)
(***************************************************************************)
EXTENDS Integers, Sequences, FiniteSets, TLC

VARIABLES pc, origin, created, out_fh, saveRaised,
          fh, position, end, ret, new_box, report, tell,
          resaved, resaveRaised

vars == <<pc, origin, created, out_fh, saveRaised,
          fh, position, end, ret, new_box, report, tell,
          resaved, resaveRaised>>

\* ------------------------------------------------------------------ bounds
\* Sub-steps of one 16.16 unit an angle may carry (what int() drops).
Sub == 2
\* Angles within MaxFrac sub-steps of zero are enumerated on both sides.
MaxFrac == 1
\* clip_left_right values 0..MaxClip (and the largest 32-bit value).
MaxClip == 1
\* Junk bytes before the box in a parsed stream: position in 0..MaxPos.
MaxPos == 1
\* Payload bytes of the mesh projection box.
MeshPayload == 4

Min(a, b) == IF a < b THEN a ELSE b
Max(a, b) == IF a > b THEN a ELSE b

\* ------------------------------------------------------------- struct, io
\* The Word of a plain non-negative integer.
ToWord(n) == <<n \div 65536, n % 65536>>
ToInt(w) == w[1] * 65536 + w[2]

\* struct.pack(">I", n) raises struct.error unless 0 <= n < 2^32.
PackOK(w) == w[1] >= 0 /\ w[1] <= 65535
PackI(w) == <<w[1] \div 256, w[1] % 256, w[2] \div 256, w[2] % 256>>
\* struct.unpack(">I", b)[0] of exactly four bytes.
UnpackI(b) == <<b[1] * 256 + b[2], b[3] * 256 + b[4]>>

\* int(angle * 65536): truncation toward zero.
IntFix(a) ==
  IF a[1] >= 0 \/ a[3] = 0 THEN <<a[1], a[2]>>
  ELSE IF a[2] = 65535 THEN <<a[1] + 1, 0>> ELSE <<a[1], a[2] + 1>>
\* n / 65536 (true division of an int, exact below 2^53).
Div65536(w) == <<w[1], w[2], 0>>

\* fh.read(n) at cursor cur, n >= 0: short at end of file.
Read(s, cur, n) == SubSeq(s, cur + 1, Min(cur + n, Len(s)))
\* The cursor after that read.
After(s, cur, n) == IF cur >= Len(s) THEN cur ELSE Min(cur + n, Len(s))

Zeros(n) == [i \in 1..n |-> 0]

\* ------------------------------------------------------------------- tags
TAG_SV3D == <<115, 118, 51, 100>>
TAG_SVHD == <<115, 118, 104, 100>>
TAG_PROJ == <<112, 114, 111, 106>>
TAG_PRHD == <<112, 114, 104, 100>>
TAG_EQUI == <<101, 113, 117, 105>>
TAG_CBMP == <<99, 98, 109, 112>>
TAG_YTMP == <<121, 116, 109, 112>>
TAG_MSHP == <<109, 115, 104, 112>>

\* ----------------------------------------------------------------- sv3dBox
NoMesh == [present |-> FALSE, header_size |-> 0, content_size |-> 0]

\* sv3dBox.__init__
sv3dBox ==
  [name |-> TAG_SV3D, header_size |-> 8, proj_size |-> 0, content_size |-> 0,
   projection |-> "", yaw |-> <<0, 0, 0>>, pitch |-> <<0, 0, 0>>,
   roll |-> <<0, 0, 0>>, clip_left_right |-> <<0, 0>>, clip_right |-> <<0, 0>>,
   clip_top |-> <<0, 0>>, clip_bottom |-> <<0, 0>>, projection_box |-> NoMesh]

\* FixedSizes with the header not taken off the content size.
FixedSizes_HeaderKept(projection, header_size) ==
  IF projection = "equirectangular"
  THEN [content_size |-> 81, proj_size |-> 60]
  ELSE IF projection = "cubemap"
  THEN [content_size |-> 73, proj_size |-> 52]
  ELSE [content_size |-> 0, proj_size |-> 0]

\* The fixed per-variant sizes of create, for the variants without a mesh box.
FixedSizes(projection, header_size) ==
  IF projection = "equirectangular"
  THEN [content_size |-> 81 - header_size, proj_size |-> 60]
  ELSE IF projection = "cubemap"
  THEN [content_size |-> 73 - header_size, proj_size |-> 52]
  ELSE [content_size |-> 0, proj_size |-> 0]

IsMesh(p) == p = "mesh" \/ p = "full-frame" \/ p = "equi-mesh"

\* mesh_projection.mshpBox.create: the mesh box and its sizes.
mshpBox_create(metadata) ==
  [present |-> TRUE, header_size |-> 8, content_size |-> MeshPayload]

\* The sizes create derives from the mesh box.
MeshSizes(pb, header_size) ==
  LET ps == pb.content_size + pb.header_size + 8 + 24
  IN [content_size |-> ps + 21 - header_size, proj_size |-> ps]

\* sv3dBox.create(metadata)
create(metadata) ==
  LET pb == IF IsMesh(metadata.spherical) THEN mshpBox_create(metadata) ELSE NoMesh
      sz == IF IsMesh(metadata.spherical) THEN MeshSizes(pb, 8)
            ELSE FixedSizes(metadata.spherical, 8)
  IN [sv3dBox EXCEPT !.projection = metadata.spherical,
                     !.content_size = sz.content_size,
                     !.proj_size = sz.proj_size,
                     !.projection_box = pb,
                     !.yaw = metadata.yaw,
                     !.pitch = metadata.pitch,
                     !.roll = metadata.roll,
                     !.clip_left_right = metadata.clip_left_right,
                     !.clip_right = metadata.clip_left_right]

\* ------------------------------------------------------------- sv3dBox.save
\* One out_fh.write: the bytes, or the exception raised while building them.
Raw(b) == [ok |-> TRUE, bytes |-> b]
Packed(w) == [ok |-> PackOK(w), bytes |-> PackI(w)]

\* The writes of a save in order, up to the first one that raises.
RECURSIVE WriteAll(_, _, _)
WriteAll(items, i, acc) ==
  IF i > Len(items) THEN [out |-> acc, raised |-> FALSE]
  ELSE IF ~items[i].ok THEN [out |-> acc, raised |-> TRUE]
  ELSE WriteAll(items, i + 1, acc \o items[i].bytes)

\* box.Box.size(): the whole box.
BoxSize(b) == b.header_size + b.content_size

\* The box header, by header_size.
HeaderItems(b) ==
  IF b.header_size = 16
  THEN << Packed(ToWord(1)), Raw(Zeros(4) \o PackI(ToWord(BoxSize(b)))), Raw(b.name) >>
  ELSE IF b.header_size = 8
  THEN << Packed(ToWord(b.content_size + b.header_size)), Raw(b.name) >>
  ELSE << >>

\* The svhd sub-box: size 13, tag, version+flags, one metadata byte.
SvhdItems ==
  << Packed(ToWord(13)), Raw(TAG_SVHD), Packed(ToWord(0)), Raw(<<0>>) >>

\* The proj header and the prhd header.
ProjItems(b) ==
  << Packed(ToWord(b.proj_size)), Raw(TAG_PROJ),
     Packed(ToWord(24)), Raw(TAG_PRHD), Packed(ToWord(0)) >>

\* yaw, pitch, roll as 16.16 fields.
AngleItems(b) ==
  << Packed(IntFix(b.yaw)), Packed(IntFix(b.pitch)), Packed(IntFix(b.roll)) >>

\* mshpBox.save: the mesh projection box; a missing projection_box has no
\* save to call.
mshpBox_save(pb) ==
  IF pb.present
  THEN << Packed(ToWord(pb.header_size + pb.content_size)), Raw(TAG_MSHP),
          Raw(Zeros(pb.content_size)) >>
  ELSE << [ok |-> FALSE, bytes |-> << >>] >>

\* The variant sub-box.
VariantItems(b) ==
  IF b.projection = "equirectangular"
  THEN << Packed(ToWord(28)), Raw(TAG_EQUI), Packed(ToWord(0)),
          Packed(ToWord(0)), Packed(ToWord(0)),
          Packed(b.clip_left_right), Packed(b.clip_left_right) >>
  ELSE IF b.projection = "cubemap"
  THEN << Packed(ToWord(20)), Raw(TAG_CBMP), Packed(ToWord(0)),
          Packed(ToWord(0)), Packed(ToWord(0)) >>
  ELSE IF IsMesh(b.projection)
  THEN mshpBox_save(b.projection_box)
  ELSE << >>

\* sv3dBox.save(in_fh, out_fh, delta) on an empty out_fh:
\* [out |-> the bytes appended, raised |-> whether it ended in an exception].
save(b) ==
  WriteAll(HeaderItems(b) \o SvhdItems \o ProjItems(b) \o AngleItems(b)
             \o VariantItems(b), 1, << >>)

\* -------------------------------------------------------------------- load
Returned(b, t) == [ret |-> "box", box |-> b, report |-> "", tell |-> t]
Failed(msg, t) == [ret |-> "None", box |-> sv3dBox, report |-> msg, tell |-> t]
Raised(t) == [ret |-> "raise", box |-> sv3dBox, report |-> "", tell |-> t]

\* ExceedsBounds off by one: a box one byte too long passes.
ExceedsBounds_OffByOne(pos, size, e) == pos + size > e + 1

\* The bounds test of the outer box.
ExceedsBounds(pos, size, e) == pos + size > e

\* HeaderVerdict with the bounds test made before the tag test.
HeaderVerdict_BoundsFirst(name, pos, size, e) ==
  IF pos + size > e THEN "bounds"
  ELSE IF name # TAG_SV3D THEN "tag"
  ELSE "ok"

\* The two checks on the outer header, in the order load makes them.
HeaderVerdict(name, pos, size, e) ==
  IF name # TAG_SV3D THEN "tag"
  ELSE IF ExceedsBounds(pos, size, e) THEN "bounds"
  ELSE "ok"

\* mesh_projection.load(fh, position, end): the mesh box, or none when the
\* header is cut short or the declared size runs past end.
mesh_load(s, pos, e) ==
  LET hdr == Read(s, pos, 8)
      c == After(s, pos, 8)
      size == ToInt(UnpackI(SubSeq(hdr, 1, 4)))
  IN IF Len(hdr) < 8 \/ pos + size > e \/ size < 8
     THEN [box |-> NoMesh, tell |-> c]
     ELSE [box |-> [present |-> TRUE, header_size |-> 8, content_size |-> size - 8],
           tell |-> After(s, c, size - 8)]

\* The variant sub-box, from projection_position on.
loadVariant(s, b, pp, e) ==
  LET c8 == After(s, pp, 4)
      proj == Read(s, c8, 4)
      c9 == After(s, c8, 4)
      w == Read(s, c9, 20)
      m == mesh_load(s, pp, e)
  IN IF proj = TAG_EQUI
     THEN IF Len(w) < 20 THEN Raised(After(s, c9, 20))
          ELSE Returned([b EXCEPT !.projection = "equirectangular",
                                  !.clip_top = UnpackI(SubSeq(w, 5, 8)),
                                  !.clip_bottom = UnpackI(SubSeq(w, 9, 12)),
                                  !.clip_left_right = UnpackI(SubSeq(w, 13, 16)),
                                  !.clip_right = UnpackI(SubSeq(w, 17, 20))],
                        c9 + 20)
     ELSE IF proj = TAG_CBMP
     THEN Returned([b EXCEPT !.projection = "cubemap"], c9)
     ELSE IF proj = TAG_YTMP \/ proj = TAG_MSHP
     THEN Returned([b EXCEPT !.projection = "mesh", !.projection_box = m.box],
                   Max(c9, m.tell))
     ELSE Failed("unknown projection", c9)

\* The prhd angles, from the cursor after the prhd header on.
loadAngles(s, b, c6, e) ==
  LET w == Read(s, c6, 12)
  IN IF Len(w) < 12 THEN Raised(After(s, c6, 12))
     ELSE loadVariant(s,
                      [b EXCEPT !.yaw = Div65536(UnpackI(SubSeq(w, 1, 4))),
                                !.pitch = Div65536(UnpackI(SubSeq(w, 5, 8))),
                                !.roll = Div65536(UnpackI(SubSeq(w, 9, 12)))],
                      c6 + 12, e)

\* svhd, proj header and prhd header: skipped by size.  A file object's
\* read(n) reads to the end of file for n = -1 and raises for n < -1.
loadSkip(s, b, c2, e) ==
  LET w == Read(s, c2, 4)
      c3 == After(s, c2, 4)
      n == ToInt(UnpackI(w)) - 4
      c4 == IF n = -1 THEN Max(c3, Len(s)) ELSE After(s, c3, n)
  IN IF Len(w) < 4 THEN Raised(c3)
     ELSE IF n < -1 THEN Raised(c3)
     ELSE loadAngles(s, b, After(s, After(s, c4, 8), 12), e)

\* load(fh, position, end):
\* [ret |-> "box" | "None" | "raise", box, report, tell |-> the final cursor].
load(s, pos, e) ==
  LET w == Read(s, pos, 4)
      c1 == After(s, pos, 4)
      name == Read(s, c1, 4)
      c2 == After(s, c1, 4)
      verdict == HeaderVerdict(name, pos, ToInt(UnpackI(w)), e)
  IN IF Len(w) < 4 THEN Raised(c1)
     ELSE IF verdict = "tag" THEN Failed("not an sv3d box", c2)
     ELSE IF verdict = "bounds" THEN Failed("size exceeds bounds", c2)
     ELSE loadSkip(s, sv3dBox, c2, e)

\* ------------------------------------------------------------------ inputs
\* The angle of k sub-steps (k / Sub sixteen-sixteen units).
FromSub(k) == LET q == k \div Sub IN <<q \div 65536, q % 65536, k % Sub>>

\* -45.5 and 90.25 degrees, and the angles within MaxFrac sub-steps of zero.
AngleVals ==
  {<<-46, 32768, 0>>, <<90, 16384, 0>>} \cup {FromSub(k) : k \in (-MaxFrac)..MaxFrac}

ClipVals == {ToWord(c) : c \in 0..MaxClip} \cup {<<65535, 65535>>}

Projections == {"equirectangular", "cubemap", "mesh", "full-frame", "equi-mesh"}

\* The metadata records handed to create.
Metadata ==
  [spherical : Projections, yaw : AngleVals, pitch : AngleVals, roll : AngleVals,
   clip_left_right : ClipVals]

\* The bytes of an sv3d box as load parses them, field by field, from the
\* parameters g of a stream: the outer header, a 13-byte svhd box declaring
\* g.svhd bytes, the proj and prhd headers, the angles and the variant box.
VariantBytes(g) ==
  IF g.proj = TAG_EQUI
  THEN PackI(ToWord(28)) \o TAG_EQUI \o Zeros(4) \o PackI(g.clip[1])
         \o PackI(g.clip[2]) \o PackI(g.clip[3]) \o PackI(g.clip[4])
  ELSE IF g.proj = TAG_YTMP \/ g.proj = TAG_MSHP
  THEN PackI(ToWord(8 + MeshPayload + g.meshExtra)) \o g.proj \o Zeros(MeshPayload)
  ELSE PackI(ToWord(20)) \o g.proj \o Zeros(12)

BodyBytes(g) ==
  PackI(ToWord(g.svhd)) \o TAG_SVHD \o Zeros(5)
    \o PackI(ToWord(8 + 24 + Len(VariantBytes(g)))) \o TAG_PROJ
    \o PackI(ToWord(24)) \o TAG_PRHD \o Zeros(4)
    \o PackI(g.yaw) \o PackI(<<0, 1>>) \o PackI(<<1, 0>>)
    \o VariantBytes(g)

\* The true size of the box of g, and the stream: g.pad junk bytes, the box
\* declaring TrueSize + g.sizeExtra bytes, cut short by g.cut bytes.
TrueSize(g) == 8 + Len(BodyBytes(g))

StreamBytes(g) ==
  LET all == [i \in 1..g.pad |-> 255]
               \o PackI(ToWord(TrueSize(g) + g.sizeExtra)) \o g.tag \o BodyBytes(g)
  IN SubSeq(all, 1, Len(all) - g.cut)

\* The streams handed to load.
Streams ==
  [pad : 0..MaxPos,
   tag : {TAG_SV3D, TAG_SVHD},
   sizeExtra : {0, 1},
   svhd : {13, 0, 3, 40},
   proj : {TAG_EQUI, TAG_CBMP, TAG_YTMP, TAG_MSHP, TAG_PRHD},
   meshExtra : {0, 1},
   yaw : {<<0, 0>>, <<45, 32768>>, <<65490, 32768>>},
   clip : {<<ToWord(0), ToWord(0), ToWord(0), ToWord(0)>>,
           <<ToWord(1), ToWord(2), ToWord(3), ToWord(4)>>},
   cut : {0, 1, 30},
   endShort : {0, 1}]

\* ------------------------------------------------------------ state machine
NoInput == [kind |-> "none"]

Init ==
  /\ pc = "init"
  /\ origin = NoInput
  /\ created = sv3dBox
  /\ out_fh = << >>
  /\ saveRaised = FALSE
  /\ fh = << >>
  /\ position = 0
  /\ end = 0
  /\ ret = "none"
  /\ new_box = sv3dBox
  /\ report = ""
  /\ tell = 0
  /\ resaved = << >>
  /\ resaveRaised = FALSE

\* new_box = sv3dBox.create(metadata)
Create(md) ==
  /\ pc = "init"
  /\ pc' = "created"
  /\ origin' = [kind |-> "create", metadata |-> md]
  /\ created' = create(md)
  /\ UNCHANGED <<out_fh, saveRaised, fh, position, end, ret, new_box, report,
                 tell, resaved, resaveRaised>>

\* created.save(in_fh, out_fh, delta) on an empty output
Save ==
  /\ pc = "created"
  /\ pc' = "saved"
  /\ LET r == save(created)
     IN /\ out_fh' = r.out
        /\ saveRaised' = r.raised
  /\ UNCHANGED <<origin, created, fh, position, end, ret, new_box, report, tell,
                 resaved, resaveRaised>>

\* The call load(s, pos, e) and what it leaves.
DoLoad(s, pos, e) ==
  LET r == load(s, pos, e)
  IN /\ fh' = s
     /\ position' = pos
     /\ end' = e
     /\ ret' = r.ret
     /\ new_box' = r.box
     /\ report' = r.report
     /\ tell' = r.tell

\* load on the bytes a completed save wrote, with end at or one short of them
LoadSaved(short) ==
  /\ pc = "saved"
  /\ ~saveRaised
  /\ pc' = "loaded"
  /\ DoLoad(out_fh, 0, Len(out_fh) - short)
  /\ UNCHANGED <<origin, created, out_fh, saveRaised, resaved, resaveRaised>>

\* load on a stream of the input set
LoadStream(g) ==
  /\ pc = "init"
  /\ pc' = "loaded"
  /\ origin' = [kind |-> "stream", g |-> g]
  /\ DoLoad(StreamBytes(g), g.pad, g.pad + TrueSize(g) - g.endShort)
  /\ UNCHANGED <<created, out_fh, saveRaised, resaved, resaveRaised>>

\* save of the box load returned
SaveLoaded ==
  /\ pc = "loaded"
  /\ ret = "box"
  /\ pc' = "resaved"
  /\ LET r == save(new_box)
     IN /\ resaved' = r.out
        /\ resaveRaised' = r.raised
  /\ UNCHANGED <<origin, created, out_fh, saveRaised, fh, position, end, ret,
                 new_box, report, tell>>

Next ==
  \/ \E md \in Metadata : Create(md)
  \/ Save
  \/ \E short \in {0, 1} : LoadSaved(short)
  \/ \E g \in Streams : LoadStream(g)
  \/ SaveLoaded

Spec == Init /\ [][Next]_vars

\* ------------------------------------------------------------------ claims
\* |a - b| < 1/65536 for two angles.
Close(a, b) ==
  /\ a[1] - b[1] \in {-1, 0, 1}
  /\ LET d == ((a[1] - b[1]) * 65536 + (a[2] - b[2])) * Sub + (a[3] - b[3])
     IN -Sub < d /\ d < Sub

\* The outer header of the parsed stream is whole, and its fields.
HasHeader == Len(fh) >= position + 8
TagRead == SubSeq(fh, position + 5, position + 8)
SizeRead == ToInt(UnpackI(SubSeq(fh, position + 1, position + 4)))

\* load was run on all the bytes that save wrote for the created box.
ReloadedWhole == pc = "loaded" /\ origin.kind = "create" /\ end = Len(fh)

\* The parsed stream is a whole, consistent box ending at end.
ValidStream ==
  /\ origin.kind = "stream"
  /\ origin.g.tag = TAG_SV3D
  /\ origin.g.sizeExtra = 0
  /\ origin.g.svhd = 13
  /\ origin.g.meshExtra = 0
  /\ origin.g.cut = 0
  /\ origin.g.endShort = 0

\* C1: create, save, then load on the bytes written gives back the created
\* projection and yaw, pitch and roll to within 1/65536, for every accepted
\* projection and every angle.
C1_RoundTrip ==
  /\ pc = "saved" => ~saveRaised
  /\ ReloadedWhole =>
       /\ ret = "box"
       /\ new_box.projection = created.projection
       /\ Close(new_box.yaw, created.yaw)
       /\ Close(new_box.pitch, created.pitch)
       /\ Close(new_box.roll, created.roll)

\* C2: saving the box that load returned for a well-formed equirectangular or
\* cubemap box writes back exactly the bytes that were parsed.
C2_ByteExactResave ==
  (/\ pc = "resaved"
   /\ new_box.projection \in {"equirectangular", "cubemap"}
   /\ (ValidStream \/ (origin.kind = "create" /\ end = Len(fh))))
  => /\ ~resaveRaised
     /\ resaved = SubSeq(fh, position + 1, position + SizeRead)

\* C3: an sv3d-tagged box whose declared size runs past end is reported as a
\* bounds violation and load returns nothing, with only the 8 header bytes
\* consumed.
C3_BoundsRejected ==
  (pc = "loaded" /\ HasHeader /\ TagRead = TAG_SV3D /\ position + SizeRead > end)
  => /\ ret = "None"
     /\ report = "size exceeds bounds"
     /\ tell = position + 8

\* C3 witness: a stream whose end is one byte short of the declared size was
\* rejected.
C3_Witness ==
  /\ pc = "loaded" /\ origin.kind = "stream" /\ HasHeader /\ TagRead = TAG_SV3D
  /\ end = position + SizeRead - 1
  /\ ret = "None"

\* C4: a tag other than sv3d is reported as a malformed tag and load returns
\* nothing, whatever the declared size and end.
C4_TagRejected ==
  (pc = "loaded" /\ HasHeader /\ TagRead # TAG_SV3D)
  => /\ ret = "None"
     /\ report = "not an sv3d box"
     /\ tell = position + 8

\* C4 witness: a wrongly tagged box that also runs past end got the tag report.
C4_Witness ==
  /\ pc = "loaded" /\ HasHeader /\ TagRead # TAG_SV3D
  /\ position + SizeRead > end
  /\ report = "not an sv3d box"

\* C5: in an otherwise valid box the variant tag decides the result: equi gives
\* equirectangular, cbmp gives cubemap without a projection_box, ytmp and mshp
\* give mesh with a projection_box, any other tag gives a report and nothing;
\* and load never returns a mesh box without a projection_box.
C5_VariantDispatch ==
  /\ (pc = "loaded" /\ ValidStream) =>
       /\ origin.g.proj = TAG_EQUI =>
            ret = "box" /\ new_box.projection = "equirectangular"
       /\ origin.g.proj = TAG_CBMP =>
            ret = "box" /\ new_box.projection = "cubemap"
              /\ ~new_box.projection_box.present
       /\ origin.g.proj \in {TAG_YTMP, TAG_MSHP} =>
            ret = "box" /\ new_box.projection = "mesh"
              /\ new_box.projection_box.present
       /\ origin.g.proj \notin {TAG_EQUI, TAG_CBMP, TAG_YTMP, TAG_MSHP} =>
            ret = "None" /\ report = "unknown projection"
  /\ (pc = "loaded" /\ ret = "box" /\ new_box.projection = "mesh") =>
       new_box.projection_box.present

\* C6: yaw = -45.5 is written as the two's complement of -45.5 * 65536
\* (FF D2 80 00) in the yaw field, and those four bytes load as -45.5.
C6_SignedFixedPoint ==
  /\ (pc = "saved" /\ created.yaw = <<-46, 32768, 0>>) =>
       /\ Len(out_fh) >= 45
       /\ SubSeq(out_fh, 42, 45) = <<255, 210, 128, 0>>
  /\ (pc = "loaded" /\ ValidStream /\ ret = "box"
        /\ origin.g.yaw = <<65490, 32768>>) =>
       new_box.yaw = <<-46, 32768, 0>>

\* C7: for a created equirectangular box content_size is 73 and proj_size 60,
\* save writes 81 bytes, the outer size field says 81 and the proj size field
\* says the bytes from the proj header to the end; cubemap likewise with 65,
\* 52 and 73.
C7_SizesAgree ==
  /\ (pc = "saved" /\ created.projection = "equirectangular") =>
       /\ created.content_size = 73 /\ created.proj_size = 60
       /\ Len(out_fh) = 81
       /\ SubSeq(out_fh, 1, 4) = PackI(ToWord(81))
       /\ SubSeq(out_fh, 22, 25) = PackI(ToWord(Len(out_fh) - 21))
  /\ (pc = "saved" /\ created.projection = "cubemap") =>
       /\ created.content_size = 65 /\ created.proj_size = 52
       /\ Len(out_fh) = 73
       /\ SubSeq(out_fh, 1, 4) = PackI(ToWord(73))
       /\ SubSeq(out_fh, 22, 25) = PackI(ToWord(Len(out_fh) - 21))

\* C8: load never ends in an exception and never moves the cursor past end.
C8_StaysInBounds ==
  pc = "loaded" => (ret # "raise" /\ tell <= end)

\* C9 as written: content_size = proj_size + 21 for every created box.
C9_Original ==
  origin.kind = "create" => created.content_size = created.proj_size + 21

\* C9 amended: content_size + header_size = proj_size + 21 for every created
\* box: the 21 bytes of svhd and proj header include the 8-byte box header.
C9_SizesWithHeader ==
  origin.kind = "create" =>
    created.content_size + created.header_size = created.proj_size + 21

\* C9 witness: a created equirectangular box with its sizes.
C9_Witness ==
  /\ pc = "created" /\ created.projection = "equirectangular"
  /\ created.content_size = 73 /\ created.proj_size = 60

\* C10: for a created equirectangular box with clip_left_right = c save
\* writes a 28-byte equi box: size, tag, version/flags, two zero fields, then
\* c twice; load gives clip_top = clip_bottom = 0, clip_left_right =
\* clip_right = c.
C10_ClipFields ==
  /\ (pc = "saved" /\ created.projection = "equirectangular") =>
       /\ Len(out_fh) = 81
       /\ SubSeq(out_fh, 54, 81) =
            PackI(ToWord(28)) \o TAG_EQUI \o Zeros(12)
              \o PackI(created.clip_left_right) \o PackI(created.clip_left_right)
  /\ (ReloadedWhole /\ created.projection = "equirectangular") =>
       /\ ret = "box"
       /\ new_box.clip_top = <<0, 0>> /\ new_box.clip_bottom = <<0, 0>>
       /\ new_box.clip_left_right = created.clip_left_right
       /\ new_box.clip_right = created.clip_left_right

\* ------------------------------------------------- what holds of a whole save
\* The sizes and bytes of C7 for every save that ran to its end.
SizesAgreeWhenSaveCompletes ==
  (pc = "saved" /\ ~saveRaised) => C7_SizesAgree

\* The equi sub-box and the loaded clip fields of C10 for every save that ran
\* to its end.
ClipFieldsWhenSaveCompletes ==
  (pc = "saved" => ~saveRaised) => C10_ClipFields

\* The round trip of C1 for every save that ran to its end, the projection
\* compared for the variants that are not written as mesh.
RoundTripWhenSaveCompletes ==
  ReloadedWhole =>
    /\ ret = "box"
    /\ new_box.projection =
         (IF IsMesh(created.projection) THEN "mesh" ELSE created.projection)
    /\ Close(new_box.yaw, created.yaw)
    /\ Close(new_box.pitch, created.pitch)
    /\ Close(new_box.roll, created.roll)

====
